---- MODULE Spec2Model ----
(***************************************************************************)
(* TwigRenderer (src/tests/README.md, lines 80-563): the supervisor of an  *)
(* external PHP rendering worker and the dispatcher of render requests.    *)
(*                                                                         *)
(* The program is single-threaded JavaScript: the code between two awaits  *)
(* on a timer or on I/O runs atomically, so every action below is one such *)
(* stretch.  An async function that returns after it was resumed from a    *)
(* timer or from I/O hands its value to its awaiting caller within the     *)
(* same drain of the microtask queue; that hand-over is part of the step.  *)
(* A polling loop that sleeps and finds its condition unchanged is a       *)
(* stuttering step and has no action of its own.                           *)
(***************************************************************************)
EXTENDS Integers, Sequences, FiniteSets

\* ------------------------------------------------------------- bounds
\* API calls (render, renderString, getMeta, init) made on one renderer.
NCallers == 2
\* Explicit stop() calls (the plugin's closeBundle).
NStoppers == 1
\* Loopback ports the operating system may offer.
NPorts == 2
\* Worker processes that exit on their own.
MaxExits == 1

\* ---------------------------------------------------- program constants
\* const attempts = 3
attempts == 3
\* this.config.maxConcurrency, the ceiling of the concurrency gate: the least
\* one, so that a single request in flight closes the gate for the next.
maxConcurrency == 0

STOPPED == "STOPPED"
STARTING == "STARTING"
READY == "READY"
STOPPING == "STOPPING"
serverStates == {STOPPED, STARTING, READY, STOPPING}

Callers == 1..NCallers
Stoppers == 1..NStoppers
Ports == 1..NPorts
\* A worker process is named after the caller whose init() spawned it.
Workers == Callers

\* render() and renderString() are the same code but for the type string they
\* hand to request(): "render" stands for both.
RenderKinds == {"render"}
RequestKinds == RenderKinds \cup {"getMeta"}

\* The asynchronous executions of stop() and of the "exit" observer: one per
\* render call (closeServer), one per worker (exit observer), one per
\* explicit stop() call.
CloserOf(c) == c
ExitOf(w) == NCallers + w
StopperOf(s) == 2 * NCallers + s
Threads == 1..(2 * NCallers + NStoppers)

VARIABLES
  serverState,        \* this.serverState
  portsUsed,          \* this.portsUsed
  inProgressRequests, \* this.inProgressRequests
  totalRequests,      \* this.totalRequests
  completedRequests,  \* this.completedRequests
  phpServerPort,      \* this.phpServerPort (and phpServerUrl); 0: undefined
  sharedConfigPath,   \* this.sharedConfigPath, named by its port; 0: null
  phpServer,          \* this.phpServer, the latest spawned worker; 0: undefined
  keepAlive,          \* FALSE iff config.keepAlive === false
  pc,                 \* where each API call is suspended
  kind,               \* which API each call is
  attempt,            \* request(): let attempt
  results,            \* request(): let results
  io,                 \* the port of the pending I/O (file path, URL)
  issuedIn,           \* serverState when the call was made (while it runs)
  cleaner,            \* the stop()/exit-observer executions
  wstat,              \* worker process: none, live, killed, dead
  wport,              \* the port the worker was told to bind
  ev,                 \* observer callbacks of a worker not yet delivered
  files,              \* config artifacts on disk, by port
  kills,              \* kill() calls made so far
  stopCalled,         \* the workers stop() was called for (killed, observers removed)
  dupPort,            \* getOpenPort returned a port the registry already held
  issued,             \* request() calls made so far
  answered,           \* request() calls that returned a response of the worker
  last,               \* the API event (call or return) the latest step was
  tail                \* how the latest render/renderString ended, if no API
                      \* call was made and no getMeta returned since

vars == <<serverState, portsUsed, inProgressRequests, totalRequests,
          completedRequests, phpServerPort, sharedConfigPath, phpServer,
          keepAlive, pc, kind, attempt, results, io, issuedIn,
          cleaner, wstat, wport, ev, files, kills, stopCalled, dupPort,
          issued, answered, last, tail>>

NoResult == [ok |-> FALSE, message |-> "unset", html |-> "unset"]
Idle == [pc |-> "idle", path |-> 0]
Finished == [pc |-> "done", path |-> 0]

\* The event at the renderer's API that the latest step was: none, a call of
\* init() or of request() that now runs, a stop() call made in state `from`, the
\* return of an init() that was called in state `from` and returned `state`,
\* or the return of caller who's request() (of the given kind, issued in
\* state `from`) with `result` after `failed` failed attempts, built from the
\* response `resp` if there was one.
NoResponse == [json |-> FALSE, ok |-> FALSE, warning |-> "unset"]
NoEvent == [ev |-> "none", who |-> 0, kind |-> "none", from |-> "none",
            state |-> "none", failed |-> 0, result |-> NoResult,
            resp |-> NoResponse]
CallEvent == [NoEvent EXCEPT !.ev = "call"]
StopEvent(st) == [NoEvent EXCEPT !.ev = "stop", !.from = st]
InitReturn(c, from, st) ==
  [NoEvent EXCEPT !.ev = "initReturn", !.who = c, !.from = from, !.state = st]
RequestReturn(c, k, from, n, res) ==
  [NoEvent EXCEPT !.ev = "requestReturn", !.who = c, !.kind = k, !.from = from,
                  !.failed = n, !.result = res]

\* constructor
Init ==
  /\ serverState = STOPPED
  /\ portsUsed = {}
  /\ inProgressRequests = 0
  /\ totalRequests = 0
  /\ completedRequests = 0
  /\ phpServerPort = 0
  /\ sharedConfigPath = 0
  /\ phpServer = 0
  /\ keepAlive \in BOOLEAN
  /\ pc = [c \in Callers |-> "idle"]
  /\ kind = [c \in Callers |-> "none"]
  /\ attempt = [c \in Callers |-> 0]
  /\ results = [c \in Callers |-> NoResult]
  /\ io = [c \in Callers |-> 0]
  /\ issuedIn = [c \in Callers |-> "none"]
  /\ cleaner = [t \in Threads |-> Idle]
  /\ wstat = [w \in Workers |-> "none"]
  /\ wport = [w \in Workers |-> 0]
  /\ ev = [w \in Workers |-> {}]
  /\ files = {}
  /\ kills = 0
  /\ stopCalled = {}
  /\ dupPort = FALSE
  /\ issued = 0
  /\ answered = 0
  /\ last = NoEvent
  /\ tail = "none"


\* ------------------------------------------------------------ helpers

\* A faulty variant: the request is not counted.
TotalAfterRequest_NotCounted(t) == t

\* request(): this.totalRequests += 1
TotalAfterRequest(t) == t + 1

\* A faulty variant: init() has no guard against a startup in progress.
InitAlreadyStarting_Never(st) == FALSE

\* init(): if (this.serverState === serverStates.STARTING) return
InitAlreadyStarting(st) == st = STARTING

\* init(): the synchronous head, up to the first await
InitEntry(st) ==
  IF InitAlreadyStarting(st) THEN "return"
  ELSE IF st = STOPPING THEN "flip"
  ELSE "start"

\* A faulty variant: getOpenPort() takes whatever port it is offered.
PortTaken_Never(p, used) == FALSE

\* getOpenPort(): while (this.portsUsed.has(portSelected))
PortTaken(p, used) == p \in used

\* A faulty variant: checkServerWhileStarting() does not wait.
KeepPolling_Never(st) == FALSE

\* checkServerWhileStarting(): while (this.serverState === STARTING)
KeepPolling(st) == st = STARTING

\* A faulty variant: stop() guards against STOPPED only.
IsNoopStop_OnlyStopped(st) == st = STOPPED

\* stop(): the guard against double cleanup
IsNoopStop(st) == st \in {STOPPED, STOPPING}

\* A faulty variant: closeServer() looks at the requests in flight only.
IdleNow_InFlightOnly(completed, total, inProgress) == inProgress = 0

\* closeServer(): completedRequests === totalRequests && inProgressRequests === 0
\* (the third conjunct, state !== STOPPING || state !== STOPPED, is always true)
IdleNow(completed, total, inProgress) ==
  /\ completed = total
  /\ inProgress = 0
  /\ (serverState # STOPPING \/ serverState # STOPPED)

\* A faulty variant: the concurrency gate is always open.
GateClosed_Never(inProgress) == FALSE

\* request(): while (this.inProgressRequests > this.config.maxConcurrency)
GateClosed(inProgress) == inProgress > maxConcurrency

\* A faulty variant: one attempt more.
RetryAgain_OneMore(a) == a <= attempts

\* request(): while (attempt < attempts)
RetryAgain(a) == a < attempts

\* The cause of the failure of attempt number a (e.message) is the token "e<a>".
CauseOf(a) == IF a = 1 THEN "e1" ELSE IF a = 2 THEN "e2" ELSE "e3"

\* A faulty variant: the failure of the first attempt is kept.
FailureResult_KeepFirst(old, a) ==
  IF a = 1 THEN [ok |-> FALSE, message |-> CauseOf(a), html |-> "undefined"]
  ELSE old

\* request(), catch: results = { ok: false, message: e.message }
FailureResult(old, a) == [ok |-> FALSE, message |-> CauseOf(a), html |-> "undefined"]
Causes == {CauseOf(a) : a \in 1..attempts}

\* request(), catch: completedRequests is left alone
CompletedAfterFailure(completed) == completed

\* request(), after the response was read: this.completedRequests += 1
CompletedAfterResponse(completed) == completed + 1

\* What the worker may answer: a JSON body (a RenderResult of its own), or
\* another content type with a status and possibly a Warning header.  "null"
\* is the null that headers.get("Warning") gives when the header is absent.
Responses ==
  [json : {TRUE}, ok : BOOLEAN, warning : {"null"}]
    \cup [json : {FALSE}, ok : BOOLEAN, warning : {"null", "warn"}]

\* request(): content-type branching
ParseResponse(r) ==
  IF r.json
  THEN IF r.ok THEN [ok |-> TRUE, message |-> "", html |-> "body"]
       ELSE [ok |-> FALSE, message |-> "twig error", html |-> ""]
  ELSE [ok |-> r.ok, message |-> r.warning, html |-> "body"]

\* A worker process that may still answer on port p: it was spawned for p
\* and has not exited (a killed process may still be alive).
Reachable(p) == \E w \in Workers : wport[w] = p /\ wstat[w] \in {"live", "killed"}

\* The operating system does not offer a port a running process is bound to.
PortBound(p) == \E w \in Workers : wport[w] = p /\ wstat[w] = "live"

\* The ports getPort() may resolve with.  Ports are interchangeable, so of
\* the ports this renderer was never offered the least stands for all; a port
\* it was offered before may be offered again once no process is bound to it.
Offered(used) ==
  {p \in Ports : ~PortBound(p) /\ (p \in used \/ \A q \in Ports \ used : p <= q)}

\* A faulty variant: the first attempt is not counted as in progress.
AfterReady_NotCounted(st, n, port) ==
  IF st # READY THEN [pc |-> "waitReady", n |-> n, io |-> 0]
  ELSE IF GateClosed(n) THEN [pc |-> "gate", n |-> n, io |-> 0]
  ELSE [pc |-> "fetch", n |-> n, io |-> port]

\* A faulty variant: request() does not wait for READY.
AfterReady_NoWait(st, n, port) ==
  IF GateClosed(n) THEN [pc |-> "gate", n |-> n, io |-> 0]
  ELSE [pc |-> "fetch", n |-> n + 1, io |-> port]

\* request(), from `while (this.serverState !== READY)` to the first fetch:
\* where the call is suspended next, the counter and the URL of the fetch.
AfterReady(st, n, port) ==
  IF st # READY THEN [pc |-> "waitReady", n |-> n, io |-> 0]
  ELSE IF GateClosed(n) THEN [pc |-> "gate", n |-> n, io |-> 0]
  ELSE [pc |-> "fetch", n |-> n + 1, io |-> port]

\* init() has returned st to caller c: an explicit init() call is over, a
\* request() goes on with its wait for READY.
AfterInit(c, k, st, n, port) ==
  IF k = "init" THEN [pc |-> "done", n |-> n, io |-> 0]
  ELSE AfterReady(st, n, port)

\* ------------------------------------------------- stop() and cleanup

\* cleanupConfigFile(), entered with this.sharedConfigPath = path: returns at
\* once when the path is null, else awaits fs.pathExists(path).
CleanupEntry(path) ==
  IF path = 0 THEN [pc |-> "resume", path |-> 0]
  ELSE [pc |-> "pathExists", path |-> path]

\* A faulty variant: the path is kept after the cleanup.
PathAfterCleanup_Kept(path) == path

\* cleanupConfigFile(), finally: this.sharedConfigPath = null
PathAfterCleanup(path) == 0

\* stop(), up to its await: thread t runs it.
DoStop(t) ==
  IF IsNoopStop(serverState)
  THEN /\ cleaner' = [cleaner EXCEPT ![t] = Finished]
       /\ UNCHANGED <<serverState, kills, stopCalled, wstat, ev>>
  ELSE /\ serverState' = STOPPING
       /\ IF phpServer # 0
          THEN /\ kills' = kills + 1
               /\ stopCalled' = stopCalled \cup {phpServer}
               /\ wstat' = [wstat EXCEPT ![phpServer] =
                              IF @ = "live" THEN "killed" ELSE @]
               /\ ev' = [ev EXCEPT ![phpServer] = {}]
          ELSE UNCHANGED <<kills, stopCalled, wstat, ev>>
       /\ cleaner' = [cleaner EXCEPT ![t] = CleanupEntry(sharedConfigPath)]

\* A faulty variant: closeServer() does not look at config.keepAlive.
CloseServer_IgnoresKeepAlive(c, comp, tot, inp) ==
  IF kind[c] \in RenderKinds
  THEN IF IdleNow(comp, tot, inp)
       THEN DoStop(CloserOf(c))
       ELSE /\ cleaner' = [cleaner EXCEPT ![CloserOf(c)] = [pc |-> "timer", path |-> 0]]
            /\ UNCHANGED <<serverState, kills, stopCalled, wstat, ev>>
  ELSE UNCHANGED <<serverState, kills, stopCalled, wstat, ev, cleaner>>

\* closeServer(), called by render/renderString of caller c once request()
\* has returned; comp, tot and inp are the counters at that moment.
CloseServer(c, comp, tot, inp) ==
  IF kind[c] \in RenderKinds /\ keepAlive = FALSE
  THEN IF IdleNow(comp, tot, inp)
       THEN DoStop(CloserOf(c))
       ELSE /\ cleaner' = [cleaner EXCEPT ![CloserOf(c)] = [pc |-> "timer", path |-> 0]]
            /\ UNCHANGED <<serverState, kills, stopCalled, wstat, ev>>
  ELSE UNCHANGED <<serverState, kills, stopCalled, wstat, ev, cleaner>>



\* ------------------------------------------------------------ API calls

\* stop() awaiting a cleanupConfigFile() that returned at once goes on in a
\* microtask: no timer, I/O or observer callback runs before it has, and
\* when closeServer() made the call, no code of the API's user either (the
\* user's code after an explicit stop() call may make further calls first).
MicrotasksDrained == \A t \in Threads : cleaner[t].pc # "resume"
UserCodeMayRun == \A c \in Callers : cleaner[CloserOf(c)].pc # "resume"

\* Calls are told apart by the order they are made in: a new call takes the
\* first slot not used yet.
NextSlot(c) == pc[c] = "idle" /\ \A d \in Callers : d < c => pc[d] # "idle"
NextStopSlot(s) ==
  /\ cleaner[StopperOf(s)].pc = "idle"
  /\ \A d \in Stoppers : d < s => cleaner[StopperOf(d)].pc # "idle"

\* What `tail` records when a request of kind k returns res.
TailAfter(k, res) ==
  IF k \in RenderKinds THEN (IF res.ok THEN "ok" ELSE "failed") ELSE "none"

\* init() called by caller c (kind k) in state serverState, up to its first
\* await or its immediate return.
InitHead(c, k) ==
  LET st == serverState
      how == InitEntry(st)
      ret == IF how = "flip" THEN READY ELSE st
      r == AfterInit(c, k, ret, inProgressRequests, phpServerPort)
  IN IF how = "start"
     THEN /\ serverState' = STARTING
          /\ pc' = [pc EXCEPT ![c] = "getPort"]
          /\ kind' = [kind EXCEPT ![c] = k]
          /\ issuedIn' = [issuedIn EXCEPT ![c] = st]
          /\ last' = CallEvent
          /\ UNCHANGED <<inProgressRequests, io>>
     ELSE /\ serverState' = ret
          /\ pc' = [pc EXCEPT ![c] = r.pc]
          /\ kind' = [kind EXCEPT ![c] = IF r.pc = "done" THEN "none" ELSE k]
          /\ issuedIn' = [issuedIn EXCEPT ![c] = IF r.pc = "done" THEN "none" ELSE st]
          /\ inProgressRequests' = r.n
          /\ io' = [io EXCEPT ![c] = r.io]
          /\ last' = InitReturn(c, st, ret)

\* render(), renderString() or getMeta() is called: request() runs up to its
\* first await (inside init() when the server is STOPPED).
CallRequest(c, k) ==
  /\ UserCodeMayRun
  /\ NextSlot(c)
  /\ k \in RequestKinds
  /\ totalRequests' = TotalAfterRequest(totalRequests)
  /\ issued' = issued + 1
  /\ tail' = "none"
  /\ IF serverState = STOPPED
     THEN InitHead(c, k)
     ELSE LET r == AfterReady(serverState, inProgressRequests, phpServerPort) IN
          /\ pc' = [pc EXCEPT ![c] = r.pc]
          /\ kind' = [kind EXCEPT ![c] = k]
          /\ issuedIn' = [issuedIn EXCEPT ![c] = serverState]
          /\ inProgressRequests' = r.n
          /\ io' = [io EXCEPT ![c] = r.io]
          /\ last' = CallEvent
          /\ UNCHANGED serverState
  /\ UNCHANGED <<portsUsed, completedRequests, phpServerPort, sharedConfigPath,
                 phpServer, keepAlive, attempt, results, cleaner, wstat, wport,
                 ev, files, kills, stopCalled, dupPort, answered>>

\* init() is called directly (the plugin does so after construction).
CallInit(c) ==
  /\ UserCodeMayRun
  /\ NextSlot(c)
  /\ InitHead(c, "init")
  /\ tail' = "none"
  /\ UNCHANGED <<portsUsed, totalRequests, completedRequests, phpServerPort,
                 sharedConfigPath, phpServer, keepAlive, attempt, results,
                 cleaner, wstat, wport, ev, files, kills, stopCalled, dupPort, issued,
                 answered>>

\* stop() is called directly (the plugin's closeBundle).
CallStop(s) ==
  /\ UserCodeMayRun
  /\ NextStopSlot(s)
  /\ DoStop(StopperOf(s))
  /\ last' = StopEvent(serverState)
  /\ tail' = "none"
  /\ UNCHANGED <<portsUsed, inProgressRequests, totalRequests, completedRequests,
                 phpServerPort, sharedConfigPath, phpServer, keepAlive, pc, kind,
                 attempt, results, io, issuedIn, wport, files, dupPort, issued,
                 answered>>

\* ----------------------------------------------------------------- init()

\* getOpenPort(): getPort() resolved with p, a port the registry does not
\* hold (a port it holds makes the loop ask again); init() goes on to
\* fs.writeFile(this.sharedConfigPath, ...).
GetPortDone(c, p) ==
  /\ MicrotasksDrained
  /\ pc[c] = "getPort"
  /\ p \in Offered(portsUsed)
  /\ ~PortTaken(p, portsUsed)
  /\ dupPort' = (dupPort \/ p \in portsUsed)
  /\ portsUsed' = portsUsed \cup {p}
  /\ phpServerPort' = p
  /\ sharedConfigPath' = p
  /\ io' = [io EXCEPT ![c] = p]
  /\ pc' = [pc EXCEPT ![c] = "writeFile"]
  /\ UNCHANGED <<serverState, inProgressRequests, totalRequests, completedRequests,
                 phpServer, keepAlive, kind, attempt, results, issuedIn,
                 cleaner, wstat, wport, ev, files, kills, stopCalled, issued, answered>>
  /\ last' = NoEvent /\ UNCHANGED tail

\* init() returns st to caller c: the part of the step after the polling
\* loop of checkServerWhileStarting() has ended.
InitDone(c, st) ==
  LET r == AfterInit(c, kind[c], st, inProgressRequests, phpServerPort) IN
  /\ pc' = [pc EXCEPT ![c] = r.pc]
  /\ kind' = [kind EXCEPT ![c] = IF r.pc = "done" THEN "none" ELSE @]
  /\ issuedIn' = [issuedIn EXCEPT ![c] = IF r.pc = "done" THEN "none" ELSE @]
  /\ inProgressRequests' = r.n
  /\ io' = [io EXCEPT ![c] = r.io]
  /\ last' = InitReturn(c, issuedIn[c], st)

\* One more round of checkServerWhileStarting(): the probe is sent.
PollOn(c) ==
  /\ pc' = [pc EXCEPT ![c] = "probe"]
  /\ io' = [io EXCEPT ![c] = phpServerPort]
  /\ last' = NoEvent
  /\ UNCHANGED <<inProgressRequests, kind, issuedIn>>

\* fs.writeFile resolved: the worker is spawned with the current port, its
\* observers are registered and checkServerWhileStarting() begins.
WriteFileDone(c) ==
  /\ MicrotasksDrained
  /\ pc[c] = "writeFile"
  /\ files' = files \cup {io[c]}
  /\ wstat' = [wstat EXCEPT ![c] = "live"]
  /\ wport' = [wport EXCEPT ![c] = phpServerPort]
  /\ phpServer' = c
  /\ IF KeepPolling(serverState) THEN PollOn(c) ELSE InitDone(c, serverState)
  /\ UNCHANGED <<serverState, portsUsed, totalRequests, completedRequests,
                 phpServerPort, sharedConfigPath, keepAlive, attempt,
                 results, cleaner, ev, kills, stopCalled, dupPort, issued, answered>>
  /\ UNCHANGED tail

\* checkIfServerIsReady(): the probe of this.phpServerUrl came back, ok or
\* not (or threw); checkServerWhileStarting() then sleeps 100 ms.
ProbeDone(c, ok) ==
  /\ MicrotasksDrained
  /\ pc[c] = "probe"
  /\ ok => Reachable(io[c])
  /\ serverState' = IF ok THEN READY ELSE serverState
  /\ pc' = [pc EXCEPT ![c] = "sleep100"]
  /\ io' = [io EXCEPT ![c] = 0]
  /\ UNCHANGED <<portsUsed, inProgressRequests, totalRequests, completedRequests,
                 phpServerPort, sharedConfigPath, phpServer, keepAlive, kind,
                 attempt, results, issuedIn, cleaner, wstat, wport, ev,
                 files, kills, stopCalled, dupPort, issued, answered>>
  /\ last' = NoEvent /\ UNCHANGED tail

\* checkServerWhileStarting(): the sleep is over; probe again while STARTING,
\* else init() returns this.serverState.
SleepDone(c) ==
  /\ MicrotasksDrained
  /\ pc[c] = "sleep100"
  /\ IF KeepPolling(serverState) THEN PollOn(c) ELSE InitDone(c, serverState)
  /\ UNCHANGED <<serverState, portsUsed, totalRequests, completedRequests,
                 phpServerPort, sharedConfigPath, phpServer, keepAlive,
                 attempt, results, cleaner, wstat, wport, ev, files,
                 kills, stopCalled, dupPort, issued, answered>>
  /\ UNCHANGED tail


\* -------------------------------------------------------------- request()

\* `while (this.serverState !== READY) await sleep(250)`: a sleep ends with
\* the server READY; the gate is evaluated in the same stretch.
WaitReadyWake(c) ==
  /\ MicrotasksDrained
  /\ pc[c] = "waitReady"
  /\ serverState = READY
  /\ LET r == AfterReady(serverState, inProgressRequests, phpServerPort) IN
     /\ pc' = [pc EXCEPT ![c] = r.pc]
     /\ inProgressRequests' = r.n
     /\ io' = [io EXCEPT ![c] = r.io]
  /\ UNCHANGED <<serverState, portsUsed, totalRequests, completedRequests,
                 phpServerPort, sharedConfigPath, phpServer, keepAlive, kind,
                 attempt, results, issuedIn, cleaner, wstat, wport, ev,
                 files, kills, stopCalled, dupPort, issued, answered>>
  /\ last' = NoEvent /\ UNCHANGED tail

\* `while (inProgressRequests > maxConcurrency) await sleep(250)`: a sleep
\* ends with the gate open; the first attempt starts (the state is not read
\* again).
GateWake(c) ==
  /\ MicrotasksDrained
  /\ pc[c] = "gate"
  /\ ~GateClosed(inProgressRequests)
  /\ pc' = [pc EXCEPT ![c] = "fetch"]
  /\ inProgressRequests' = inProgressRequests + 1
  /\ io' = [io EXCEPT ![c] = phpServerPort]
  /\ UNCHANGED <<serverState, portsUsed, totalRequests, completedRequests,
                 phpServerPort, sharedConfigPath, phpServer, keepAlive, kind,
                 attempt, results, issuedIn, cleaner, wstat, wport, ev,
                 files, kills, stopCalled, dupPort, issued, answered>>
  /\ last' = NoEvent /\ UNCHANGED tail

\* request() of caller c returns res: its locals are gone, and
\* render/renderString call closeServer() before they return res themselves.
RequestDone(c, res) ==
  /\ pc' = [pc EXCEPT ![c] = "done"]
  /\ io' = [io EXCEPT ![c] = 0]
  /\ attempt' = [attempt EXCEPT ![c] = 0]
  /\ results' = [results EXCEPT ![c] = NoResult]
  /\ kind' = [kind EXCEPT ![c] = "none"]
  /\ issuedIn' = [issuedIn EXCEPT ![c] = "none"]
  /\ CloseServer(c, completedRequests', totalRequests, inProgressRequests')

\* fetch resolved and the body was read: request() returns the parsed result.
FetchResponse(c, r) ==
  /\ MicrotasksDrained
  /\ pc[c] = "fetch"
  /\ Reachable(io[c])
  /\ r \in Responses
  /\ inProgressRequests' = inProgressRequests - 1
  /\ completedRequests' = CompletedAfterResponse(completedRequests)
  /\ answered' = answered + 1
  /\ last' = [RequestReturn(c, kind[c], issuedIn[c], attempt[c], ParseResponse(r))
                EXCEPT !.resp = r]
  /\ tail' = TailAfter(kind[c], ParseResponse(r))
  /\ RequestDone(c, ParseResponse(r))
  /\ UNCHANGED <<portsUsed, totalRequests, phpServerPort, sharedConfigPath,
                 phpServer, keepAlive, wport, files, dupPort, issued>>

\* fetch (or reading the body) threw: the catch block; either the next
\* attempt starts at once, or the attempts are used up and request() returns
\* the last failure.
FetchFailure(c) ==
  LET a == attempt[c] + 1
      res == FailureResult(results[c], a)
  IN
  /\ MicrotasksDrained
  /\ pc[c] = "fetch"
  /\ IF RetryAgain(a)
     THEN /\ attempt' = [attempt EXCEPT ![c] = a]
          /\ results' = [results EXCEPT ![c] = res]
          /\ io' = [io EXCEPT ![c] = phpServerPort]
          /\ last' = NoEvent
          /\ UNCHANGED <<pc, kind, issuedIn, inProgressRequests,
                         completedRequests, serverState, kills, stopCalled, wstat,
                         ev, cleaner, tail>>
     ELSE /\ inProgressRequests' = inProgressRequests - 1
          /\ completedRequests' = CompletedAfterFailure(completedRequests)
          /\ last' = RequestReturn(c, kind[c], issuedIn[c], a, res)
          /\ tail' = TailAfter(kind[c], res)
          /\ RequestDone(c, res)
  /\ UNCHANGED <<portsUsed, totalRequests, phpServerPort, sharedConfigPath,
                 phpServer, keepAlive, wport, files, dupPort, issued, answered>>

\* closeServer(): the 300 ms timer fires and checks once more.
TimerFire(c) ==
  /\ MicrotasksDrained
  /\ cleaner[CloserOf(c)].pc = "timer"
  /\ IF IdleNow(completedRequests, totalRequests, inProgressRequests)
     THEN DoStop(CloserOf(c))
     ELSE /\ cleaner' = [cleaner EXCEPT ![CloserOf(c)] = Finished]
          /\ UNCHANGED <<serverState, kills, stopCalled, wstat, ev>>
  /\ UNCHANGED <<portsUsed, inProgressRequests, totalRequests, completedRequests,
                 phpServerPort, sharedConfigPath, phpServer, keepAlive, pc, kind,
                 attempt, results, io, issuedIn, wport, files, dupPort, issued,
                 answered>>
  /\ last' = NoEvent /\ UNCHANGED tail

\* ------------------------------------------- cleanupConfigFile(), resumed

\* stop() awaited a cleanupConfigFile() that had nothing to delete.
StopResume(t) ==
  /\ cleaner[t].pc = "resume"
  /\ serverState' = STOPPED
  /\ cleaner' = [cleaner EXCEPT ![t] = Finished]
  /\ UNCHANGED <<portsUsed, inProgressRequests, totalRequests, completedRequests,
                 phpServerPort, sharedConfigPath, phpServer, keepAlive, pc, kind,
                 attempt, results, io, issuedIn, wstat, wport, ev, files,
                 kills, stopCalled, dupPort, issued, answered>>
  /\ last' = NoEvent /\ UNCHANGED tail

\* fs.pathExists resolved.  A file that exists is unlinked under the path
\* this.sharedConfigPath holds now (null throws at once); otherwise the
\* finally block clears the path and the caller sets STOPPED.
PathExistsDone(t) ==
  /\ MicrotasksDrained
  /\ cleaner[t].pc = "pathExists"
  /\ IF cleaner[t].path \in files /\ sharedConfigPath # 0
     THEN /\ cleaner' = [cleaner EXCEPT ![t] = [pc |-> "unlink", path |-> sharedConfigPath]]
          /\ UNCHANGED <<serverState, sharedConfigPath>>
     ELSE /\ cleaner' = [cleaner EXCEPT ![t] = Finished]
          /\ sharedConfigPath' = PathAfterCleanup(sharedConfigPath)
          /\ serverState' = STOPPED
  /\ UNCHANGED <<portsUsed, inProgressRequests, totalRequests, completedRequests,
                 phpServerPort, phpServer, keepAlive, pc, kind, attempt, results,
                 io, issuedIn, wstat, wport, ev, files, kills, stopCalled, dupPort, issued,
                 answered>>
  /\ last' = NoEvent /\ UNCHANGED tail

\* fs.unlink resolved (deleted = TRUE) or rejected (ENOENT or an I/O error,
\* both swallowed); the finally block clears the path and the caller of
\* cleanupConfigFile (stop() or the exit observer) sets STOPPED.
UnlinkDone(t, deleted) ==
  /\ MicrotasksDrained
  /\ cleaner[t].pc = "unlink"
  /\ deleted => cleaner[t].path \in files
  /\ files' = IF deleted THEN files \ {cleaner[t].path} ELSE files
  /\ sharedConfigPath' = PathAfterCleanup(sharedConfigPath)
  /\ serverState' = STOPPED
  /\ cleaner' = [cleaner EXCEPT ![t] = Finished]
  /\ UNCHANGED <<portsUsed, inProgressRequests, totalRequests, completedRequests,
                 phpServerPort, phpServer, keepAlive, pc, kind, attempt, results,
                 io, issuedIn, wstat, wport, ev, kills, stopCalled, dupPort, issued,
                 answered>>
  /\ last' = NoEvent /\ UNCHANGED tail

\* ------------------------------------------------------ the worker process

\* A worker that was not killed may exit on its own; its close and exit
\* observers are then called, in either order.  The renderer learns of the
\* exit by the first of the two, so the exit and that callback are one step.
Exits == Cardinality({x \in Workers : wstat[x] = "dead"})
Pending(w) ==
  IF wstat[w] = "live" /\ Exits < MaxExits THEN {"close", "exit"} ELSE ev[w]

\* phpServer.on("close")
OnClose(w) ==
  /\ MicrotasksDrained
  /\ "close" \in Pending(w)
  /\ wstat' = [wstat EXCEPT ![w] = "dead"]
  /\ ev' = [ev EXCEPT ![w] = Pending(w) \ {"close"}]
  /\ serverState' = STOPPING
  /\ UNCHANGED <<portsUsed, inProgressRequests, totalRequests, completedRequests,
                 phpServerPort, sharedConfigPath, phpServer, keepAlive, pc, kind,
                 attempt, results, io, issuedIn, cleaner, wport,
                 files, kills, stopCalled, dupPort, issued, answered>>
  /\ last' = NoEvent /\ UNCHANGED tail

\* phpServer.on("exit"): cleans up unless the state is STOPPING, then sets
\* STOPPED (at once when there is nothing to await).
OnExit(w) ==
  /\ MicrotasksDrained
  /\ "exit" \in Pending(w)
  /\ wstat' = [wstat EXCEPT ![w] = "dead"]
  /\ ev' = [ev EXCEPT ![w] = Pending(w) \ {"exit"}]
  /\ IF serverState # STOPPING /\ sharedConfigPath # 0
     THEN /\ cleaner' = [cleaner EXCEPT ![ExitOf(w)] = CleanupEntry(sharedConfigPath)]
          /\ UNCHANGED serverState
     ELSE /\ cleaner' = [cleaner EXCEPT ![ExitOf(w)] = Finished]
          /\ serverState' = STOPPED
  /\ UNCHANGED <<portsUsed, inProgressRequests, totalRequests, completedRequests,
                 phpServerPort, sharedConfigPath, phpServer, keepAlive, pc, kind,
                 attempt, results, io, issuedIn, wport, files,
                 kills, stopCalled, dupPort, issued, answered>>
  /\ last' = NoEvent /\ UNCHANGED tail

\* ------------------------------------------------------------------- Next

Next ==
  \/ \E c \in Callers, k \in RequestKinds : CallRequest(c, k)
  \/ \E c \in Callers : CallInit(c)
  \/ \E s \in Stoppers : CallStop(s)
  \/ \E c \in Callers, p \in Ports : GetPortDone(c, p)
  \/ \E c \in Callers : WriteFileDone(c)
  \/ \E c \in Callers, ok \in BOOLEAN : ProbeDone(c, ok)
  \/ \E c \in Callers : SleepDone(c)
  \/ \E c \in Callers : WaitReadyWake(c)
  \/ \E c \in Callers : GateWake(c)
  \/ \E c \in Callers, r \in Responses : FetchResponse(c, r)
  \/ \E c \in Callers : FetchFailure(c)
  \/ \E c \in Callers : TimerFire(c)
  \/ \E t \in Threads : StopResume(t)
  \/ \E t \in Threads : PathExistsDone(t)
  \/ \E t \in Threads, deleted \in BOOLEAN : UnlinkDone(t, deleted)
  \/ \E w \in Workers : OnClose(w)
  \/ \E w \in Workers : OnExit(w)

Spec == Init /\ [][Next]_vars

\* ------------------------------------------------------------ properties

\* The steps the program takes by itself: everything but the API calls and
\* the exit of a worker nobody killed.
ProgramStep ==
  \/ \E c \in Callers, p \in Ports : GetPortDone(c, p)
  \/ \E c \in Callers : WriteFileDone(c)
  \/ \E c \in Callers, ok \in BOOLEAN : ProbeDone(c, ok)
  \/ \E c \in Callers : SleepDone(c)
  \/ \E c \in Callers : WaitReadyWake(c)
  \/ \E c \in Callers : GateWake(c)
  \/ \E c \in Callers, r \in Responses : FetchResponse(c, r)
  \/ \E c \in Callers : FetchFailure(c)
  \/ \E c \in Callers : TimerFire(c)
  \/ \E t \in Threads : StopResume(t)
  \/ \E t \in Threads : PathExistsDone(t)
  \/ \E t \in Threads, deleted \in BOOLEAN : UnlinkDone(t, deleted)
  \/ \E w \in Workers : ev[w] # {} /\ (OnClose(w) \/ OnExit(w))

\* Nothing is left to run: without a new call, or a worker exiting on its
\* own, the state stays as it is for ever.
Quiescent == ~ENABLED ProgramStep

\* No render, renderString or getMeta call is outstanding.
NoRequestPending == \A c \in Callers : kind[c] \notin RequestKinds

\* The part of init() that allocates the port, writes the config, spawns the
\* worker and polls it.
StartupPcs == {"getPort", "writeFile", "probe", "sleep100"}

\* The executions of stop(): by closeServer() and by explicit calls.
StopThreads == {CloserOf(c) : c \in Callers} \cup {StopperOf(s) : s \in Stoppers}

\* C1: completedRequests never exceeds totalRequests.
C1_CompletedAtMostTotal == completedRequests <= totalRequests

\* A request used up its attempts after another one was answered.
C1_Witness ==
  /\ last.ev = "requestReturn"
  /\ last.failed = attempts
  /\ completedRequests = 1
  /\ totalRequests = 2

\* C2: stop() called while the state is STOPPED or STOPPING does nothing: an
\* explicit call changes no state, sends no kill and deletes nothing, and no
\* execution of stop() (closeServer's included) that starts in one of the two
\* states sends a kill or starts a cleanup.
C2_StopIsNoop ==
  [][/\ (last'.ev = "stop" /\ serverState \in {STOPPED, STOPPING}) =>
          UNCHANGED <<serverState, kills, wstat, ev, files, sharedConfigPath,
                      phpServer, phpServerPort, portsUsed, inProgressRequests,
                      totalRequests, completedRequests>>
     /\ serverState \in {STOPPED, STOPPING} =>
          /\ kills' = kills
          /\ \A t \in StopThreads :
               cleaner[t].pc \in {"idle", "timer"} =>
                 cleaner'[t].pc \in {"idle", "timer", "done"}]_vars

\* stop() was called while an earlier stop() had killed the worker and was
\* still cleaning up.
C2_Witness == last.ev = "stop" /\ last.from = STOPPING /\ kills = 1

\* C3, as stated: init() never returns while the state is STARTING.
C3_NeverReturnsStarting == last.ev = "initReturn" => last.state # STARTING

\* C3, amended: an init() that was called in a state other than STARTING
\* never returns while the state is STARTING; only the init() that finds a
\* startup in progress returns at once, with the state still STARTING.
C3_ReturnsStartingOnlyIfCalledStarting ==
  (last.ev = "initReturn" /\ last.state = STARTING) => last.from = STARTING

\* An init() called in STOPPED polled the worker and returned once READY.
C3_Witness == last.ev = "initReturn" /\ last.from = STOPPED /\ last.state = READY

\* C4: getOpenPort never returns a port it returned before (every port it
\* returns is in the registry from then on), and the registry only grows.
C4_PortsNeverReused ==
  /\ [](dupPort = FALSE)
  /\ [][portsUsed \subseteq portsUsed']_vars

\* A second port was allocated while the port of a worker that was killed
\* or has exited was free to be offered again.
C4_Witness ==
  /\ Cardinality(portsUsed) = 2
  /\ \E w \in Workers :
       /\ wstat[w] \in {"killed", "dead"}
       /\ wport[w] \in portsUsed
       /\ wport[w] # phpServerPort

\* C5: a call that finds a startup in progress starts none of its own: it
\* never allocates a port, writes a config or spawns a worker, and an init()
\* that finds STARTING returns without touching anything.  Every init() that
\* does run allocates exactly one port, so calls made at once spawn one worker.
C5_OneStartup ==
  /\ [](/\ \A c \in Callers :
             issuedIn[c] = STARTING => pc[c] \notin StartupPcs /\ wstat[c] = "none"
        /\ Cardinality(portsUsed) =
             Cardinality({c \in Callers : pc[c] = "writeFile" \/ wstat[c] # "none"}))
  /\ [][(last'.ev = "initReturn" /\ last'.from = STARTING) =>
          UNCHANGED <<serverState, portsUsed, phpServerPort, sharedConfigPath,
                      phpServer, wstat, wport, files>>]_vars

\* Two requests were made at once, the first in STOPPED and the second while
\* the first one's startup ran; both were sent to the one worker spawned.
C5_Witness ==
  \E c, d \in Callers :
    /\ issuedIn[c] = STOPPED /\ pc[c] = "fetch"
    /\ issuedIn[d] = STARTING /\ pc[d] \in {"gate", "fetch"}
    /\ Cardinality(portsUsed) = 1
    /\ Cardinality({w \in Workers : wstat[w] # "none"}) = 1

\* C6: a request whose attempts all fail returns ok = false with the cause
\* of the last failure as its message; it was counted once in totalRequests
\* and is not counted in completedRequests, which counts answered requests.
C6_ExhaustedRequest ==
  /\ (last.ev = "requestReturn" /\ last.failed = attempts) =>
        /\ last.result.ok = FALSE
        /\ last.result.message = CauseOf(attempts)
  /\ totalRequests = issued
  /\ completedRequests = answered

\* A request returned after three failed attempts.
C6_Witness ==
  /\ last.ev = "requestReturn"
  /\ last.failed = attempts
  /\ totalRequests = 1
  /\ completedRequests = 0

\* C7, as stated: every render, renderString or getMeta call returns.  Once
\* nothing is left to run, a call that has not returned never will, so the
\* claim says that no request is outstanding then.
C7_EveryRequestReturns == Quiescent => NoRequestPending

\* C8: a render issued in STOPPED sets STARTING in the very step of the call
\* and begins the startup; it passes on to the concurrency gate and to its
\* network call only in a step that finds READY, so READY comes after
\* STARTING and before the network call; and it returns ok = true when the
\* worker answers so.
C8_RenderFromStopped ==
  /\ [][\A c \in Callers :
          (pc[c] = "idle" /\ kind'[c] \in RenderKinds /\ serverState = STOPPED) =>
             /\ serverState' = STARTING
             /\ pc'[c] = "getPort"]_vars
  /\ [][\A c \in Callers :
          (/\ issuedIn[c] = STOPPED
           /\ kind[c] \in RenderKinds
           /\ pc[c] \in StartupPcs \cup {"waitReady"}
           /\ pc'[c] \in {"gate", "fetch"}) =>
             serverState = READY /\ serverState' = READY]_vars
  /\ [](\A c \in Callers :
          (issuedIn[c] = STOPPED /\ pc[c] = "getPort") => wstat[c] = "none")

\* The one render made, issued in STOPPED, was answered at the first attempt
\* and returned ok = true; nobody called stop().
C8_Witness ==
  /\ last.ev = "requestReturn"
  /\ last.kind \in RenderKinds
  /\ last.from = STOPPED
  /\ last.result.ok
  /\ last.failed = 0
  /\ issued = 1
  /\ kills = 0

\* Nobody has called stop() and no worker has exited on its own.
Undisturbed ==
  /\ \A s \in Stoppers : cleaner[StopperOf(s)].pc = "idle"
  /\ \A w \in Workers : wstat[w] # "dead"

\* C9, as stated: with keep-alive disabled, after a render that returned
\* ok = true with no other request outstanding and no call made since, the
\* state is STOPPED once nothing is left to run (here: in the runs in which
\* nobody calls stop() and no worker exits on its own).
C9_StopsAfterSuccess ==
  (/\ keepAlive = FALSE
   /\ tail = "ok"
   /\ Undisturbed
   /\ NoRequestPending
   /\ Quiescent) => serverState = STOPPED

\* C10, as stated: with keep-alive disabled, after the latest render has
\* returned, with a response or with its retries used up, with no request
\* outstanding and no call made since, the state is STOPPED once nothing
\* is left to run.
C10_StopsAfterAnyEnd ==
  (/\ keepAlive = FALSE
   /\ tail \in {"ok", "failed"}
   /\ NoRequestPending
   /\ Quiescent) => serverState = STOPPED

\* C11: inProgressRequests never exceeds maxConcurrency + 1, however many
\* calls are made and whichever attempts fail and are retried.
C11_InProgressBounded == inProgressRequests <= maxConcurrency + 1

\* The gate holds one call back while another, at its ceiling, retries.
C11_Witness ==
  \E c, d \in Callers :
    /\ pc[c] = "fetch" /\ attempt[c] >= 1
    /\ pc[d] = "gate"
    /\ inProgressRequests = maxConcurrency + 1

\* C12, as stated: a response of another content type than JSON, with a
\* successful status and no Warning header, makes request() return
\* {ok: true, html: <the body>, message: ""}.
C12_PlainSuccessHasEmptyMessage ==
  (/\ last.ev = "requestReturn"
   /\ last.failed < attempts
   /\ ~last.resp.json /\ last.resp.ok /\ last.resp.warning = "null") =>
     last.result = [ok |-> TRUE, message |-> "", html |-> "body"]

\* The result was built by request() itself: from a failure of the network
\* call, or from a response that is not JSON.
DispatcherBuilt ==
  /\ last.ev = "requestReturn"
  /\ last.failed = attempts \/ ~last.resp.json

\* C13, as stated: every result with ok = false that request() builds itself
\* carries a message that is not empty (and not null).
C13_FailureHasMessage ==
  (DispatcherBuilt /\ ~last.result.ok) => last.result.message \notin {"", "null"}

\* C14, as stated: a request() call made while the state is STOPPING flips
\* the state back to READY, spawns no worker, and goes on to the concurrency
\* gate and its network attempts.
C14_RequestInStoppingFlipsToReady ==
  [][\A c \in Callers :
       (pc[c] = "idle" /\ kind'[c] \in RequestKinds /\ serverState = STOPPING) =>
          /\ serverState' = READY
          /\ pc'[c] \in {"gate", "fetch"}
          /\ wstat' = wstat]_vars

\* C15, as stated: closeServer() is called when request() has returned,
\* whatever the type of the request and whatever its result.  With keep-alive
\* disabled a call of closeServer() shows: it runs stop() or arms its timer.
C15_CloseServerAfterEveryRequest ==
  (last.ev = "requestReturn" /\ keepAlive = FALSE) =>
     cleaner[CloserOf(last.who)].pc # "idle"

\* C16: closeServer() (at once or from its timer) never stops the worker
\* while a request has been made and has not returned: the counters say
\* idle only when no request is outstanding, and in the step in which a
\* closeServer() starts a shutdown no request is waiting for the worker,
\* waiting at the gate or in a network attempt.
C16_NoShutdownUnderRequests ==
  /\ []((completedRequests = totalRequests /\ inProgressRequests = 0) =>
          NoRequestPending)
  /\ [][\A c \in Callers :
          (/\ cleaner[CloserOf(c)].pc \in {"idle", "timer"}
           /\ cleaner'[CloserOf(c)].pc \in {"pathExists", "resume"}) =>
             \A d \in Callers : kind'[d] \notin RequestKinds]_vars

\* The second of two renders returned and its closeServer() has just begun
\* the shutdown: the worker was killed and the cleanup is pending.
C16_Witness ==
  /\ last.ev = "requestReturn"
  /\ issued = 2
  /\ keepAlive = FALSE
  /\ serverState = STOPPING
  /\ kills = 1
  /\ cleaner[CloserOf(last.who)].pc = "pathExists"

\* The only worker spawned has exited on its own, both its observers have
\* run, and stop() was never called: keep-alive is on, so closeServer() calls
\* none, and no explicit call was made.
ExitedOnItsOwn ==
  /\ keepAlive
  /\ \A s \in Stoppers : cleaner[StopperOf(s)].pc = "idle"
  /\ \E w \in Workers : wstat[w] = "dead"
  /\ \A w \in Workers : wstat[w] \in {"none", "dead"} /\ ev[w] = {}

\* C17, as stated: after a worker exited on its own, in whichever order its
\* close and exit observers ran, the config artifact is deleted and the state
\* is STOPPED once nothing is left to run.
C17_SettlesAfterOwnExit ==
  (ExitedOnItsOwn /\ Quiescent) => (serverState = STOPPED /\ files = {})

\* The executions of stop() that are past the guard (they were called in
\* READY or STARTING) and await cleanupConfigFile().
InCleanup(t) == cleaner[t].pc \in {"resume", "pathExists", "unlink"}

\* C18: a stop() called in READY or STARTING always completes, and when it
\* does the state is STOPPED and the artifact path is forgotten, also when
\* the artifact is absent or its deletion fails.
C18_StopCompletesStopped ==
  /\ []((\E t \in StopThreads : InCleanup(t)) => ~Quiescent)
  /\ [][\A t \in StopThreads :
          (InCleanup(t) /\ cleaner'[t].pc = "done") =>
             serverState' = STOPPED /\ sharedConfigPath' = 0]_vars

\* stop() has killed the only worker and has returned, the state is STOPPED
\* and the path forgotten, while the artifact is still on disk: its deletion
\* failed.
C18_Witness ==
  /\ \E s \in Stoppers : cleaner[StopperOf(s)].pc = "done"
  /\ kills = 1
  /\ Cardinality(portsUsed) = 1
  /\ phpServer # 0 /\ wport[phpServer] \in files
  /\ serverState = STOPPED
  /\ sharedConfigPath = 0

\* C19, as stated: once stop() was called for a worker, no step of a close or
\* exit observer of that worker (one that starts, or one that had begun and
\* goes on after its await) changes the state, clears the artifact path or
\* deletes an artifact.
C19_NoStaleObserver ==
  [][\A w \in stopCalled :
       (cleaner'[ExitOf(w)] # cleaner[ExitOf(w)] \/ ev'[w] # ev[w]) =>
          UNCHANGED <<serverState, sharedConfigPath, files>>]_vars

\* The worker processes that have neither exited nor been sent a kill.
LiveWorkers == {w \in Workers : wstat[w] = "live"}

\* C20, as stated: at most one worker process is live at any time, and a
\* worker is spawned only by an init() that found the state STOPPED.
C20_AtMostOneLiveWorker ==
  /\ [](Cardinality(LiveWorkers) <= 1)
  /\ [][\A c \in Callers :
          (wstat[c] = "none" /\ wstat'[c] = "live") => issuedIn[c] = STOPPED]_vars

\* C21, as stated: the state becomes READY only from STARTING, by a probe of
\* the current worker that succeeded, or from STOPPING, by the recovery rule
\* of init(); a probe answered after the state has left STARTING does not
\* set READY.
C21_ReadyOnlyFromStartingOrRecovery ==
  [][(serverState # READY /\ serverState' = READY) =>
       \/ /\ serverState = STARTING
          /\ phpServer # 0
          /\ \E c \in Callers :
               /\ pc[c] = "probe" /\ pc'[c] = "sleep100"
               /\ io[c] = phpServerPort
               /\ wport[phpServer] = phpServerPort
       \/ /\ serverState = STOPPING
          /\ last'.ev = "initReturn"
          /\ last'.from = STOPPING]_vars

\* The network calls the request that has just returned has made: its failed
\* attempts, and the one that was answered if one was.
NetworkCalls == last.failed + (IF last.resp = NoResponse THEN 0 ELSE 1)

\* C22: a request() makes at least one and at most three network calls; the
\* first response that is parsed is returned, whatever its ok, and counted
\* once in completedRequests; an attempt is repeated only after it failed,
\* and a failed attempt is counted nowhere.
C22_AttemptsOfOneRequest ==
  /\ [](last.ev = "requestReturn" =>
          /\ NetworkCalls \in 1..attempts
          /\ last.resp # NoResponse => last.result = ParseResponse(last.resp)
          /\ completedRequests = answered)
  /\ [][\A c \in Callers :
          /\ (attempt'[c] # attempt[c] /\ pc'[c] = "fetch") =>
                /\ pc[c] = "fetch"
                /\ attempt'[c] = attempt[c] + 1
                /\ UNCHANGED <<completedRequests, answered>>
          /\ (pc[c] = "fetch" /\ answered' # answered /\ last'.who = c) =>
                /\ pc'[c] = "done"
                /\ completedRequests' = completedRequests + 1]_vars

\* The third attempt of a request was answered, with a result that says
\* ok = false: it is returned and counted as completed.
C22_Witness ==
  /\ last.ev = "requestReturn"
  /\ last.failed = 2
  /\ last.resp.json /\ ~last.result.ok
  /\ completedRequests = 1
  /\ totalRequests = 1

\* The requests that are inside a network attempt.
InAttempt == {c \in Callers : pc[c] = "fetch"}

\* C23: inProgressRequests is never negative and equals the number of
\* requests inside a network attempt; it is 0 when no request is
\* outstanding.
C23_InProgressCountsAttempts ==
  /\ inProgressRequests >= 0
  /\ inProgressRequests = Cardinality(InAttempt)
  /\ NoRequestPending => inProgressRequests = 0

\* Two requests have returned, one answered after a failed attempt and one
\* with its attempts used up, and the counter is back at 0.
C23_Witness ==
  /\ issued = 2
  /\ answered = 1
  /\ NoRequestPending
  /\ last.ev = "requestReturn"
  /\ last.failed >= 1
  /\ inProgressRequests = 0

\* C24: when config.keepAlive is not false, closeServer() does nothing: no
\* stop() of its own ever runs and no timer is armed, the step in which a
\* request returns sends no kill and leaves the state alone, and as long as
\* nobody calls stop() and no worker exits no kill is sent and the state is
\* never STOPPING.
C24_KeepAliveNeverStops ==
  /\ [](keepAlive =>
          /\ \A c \in Callers : cleaner[CloserOf(c)] = Idle
          /\ Undisturbed => (kills = 0 /\ serverState # STOPPING))
  /\ [][(keepAlive /\ last'.ev = "requestReturn") =>
          UNCHANGED <<serverState, kills, stopCalled, wstat, ev, cleaner>>]_vars

\* With keep-alive on, the only render made has returned ok = true, the
\* counters say idle, and the worker is still READY and was not killed.
C24_Witness ==
  /\ keepAlive
  /\ last.ev = "requestReturn"
  /\ last.kind \in RenderKinds
  /\ last.result.ok
  /\ NoRequestPending
  /\ completedRequests = totalRequests
  /\ inProgressRequests = 0
  /\ serverState = READY
  /\ kills = 0

====
